---- MODULE Spec2Model ----
(***************************************************************************)
(* Preprocessor model of the three export headers                          *)
(*   src/jxl_export.h, src/jxl_cms_export.h, src/jxl/jxl_threads_export.h  *)
(* The state is the macro table of one translation unit.  A step is one    *)
(* directive of the translation unit: a #define / #undef of an ambient     *)
(* flag, a #define of one of the headers' tokens, or an #include of one of *)
(* the three headers (the whole header is one step).                       *)
(***************************************************************************)
EXTENDS Naturals, Sequences, FiniteSets

VARIABLES macros, last, ndirectives

vars == <<macros, last, ndirectives>>

(* Number of #define / #undef directives the translation unit itself issues *)
MaxUserDirectives == 1

(***************************************************************************)
(* Macro names                                                             *)
(***************************************************************************)
CommonFlags == {"JXL_STATIC_DEFINE", "_WIN32", "__GNUC__", "_MSC_VER"}

RoleFlags == {"JXL_INTERNAL_LIBRARY_BUILD", "JXL_CMS_INTERNAL_LIBRARY_BUILD",
              "JXL_THREADS_INTERNAL_LIBRARY_BUILD"}

Flags == CommonFlags \cup RoleFlags

Guards == {"JXL_EXPORT_H", "JXL_CMS_EXPORT_H", "JXL_THREADS_EXPORT_H"}

JxlTokens == {"JXL_EXPORT", "JXL_NO_EXPORT", "JXL_DEPRECATED",
              "JXL_DEPRECATED_EXPORT", "JXL_DEPRECATED_NO_EXPORT"}

JxlCmsTokens == {"JXL_CMS_EXPORT", "JXL_CMS_NO_EXPORT", "JXL_CMS_DEPRECATED",
                 "JXL_CMS_DEPRECATED_EXPORT", "JXL_CMS_DEPRECATED_NO_EXPORT"}

JxlThreadsTokens == {"JXL_THREADS_EXPORT", "JXL_THREADS_NO_EXPORT",
                     "JXL_THREADS_DEPRECATED", "JXL_THREADS_DEPRECATED_EXPORT",
                     "JXL_THREADS_DEPRECATED_NO_EXPORT"}

Tokens == JxlTokens \cup JxlCmsTokens \cup JxlThreadsTokens

Names == Flags \cup Guards \cup Tokens

(***************************************************************************)
(* Replacement lists (sequences of preprocessing tokens)                   *)
(***************************************************************************)
Empty == <<>>

DllExport == <<"__declspec(dllexport)">>

DllImport == <<"__declspec(dllimport)">>

VisDefault == <<"__attribute__((visibility(\"default\")))">>

VisHidden == <<"__attribute__((visibility(\"hidden\")))">>

GnuDeprecated == <<"__attribute__ ((__deprecated__))">>

MsvcDeprecated == <<"__declspec(deprecated)">>

(* Replacement lists a translation unit gives a token it defines itself *)
UserBodies == {<<"custom">>}

Bodies == {Empty, DllExport, DllImport, VisDefault, VisHidden, GnuDeprecated,
           MsvcDeprecated, <<"custom">>}
            \cup {<<a, b>> : a \in Tokens, b \in Tokens}

NotDefined == [def |-> FALSE, body |-> Empty]

Defined(body) == [def |-> TRUE, body |-> body]

(***************************************************************************)
(* Directives.  pp is the preprocessor while it reads a header: the macro  *)
(* table, the names the header has issued a #define for, and the names for *)
(* which that #define met a different existing definition (the             *)
(* redefinition diagnostic).                                               *)
(***************************************************************************)
Ifdef(pp, n) == pp.tbl[n].def

Define(pp, n, body) ==
    [tbl       |-> [pp.tbl EXCEPT ![n] = Defined(body)],
     issued    |-> pp.issued \cup {n},
     redefined |-> pp.redefined \cup
                     (IF pp.tbl[n].def /\ pp.tbl[n].body # body THEN {n} ELSE {})]

Start(tbl) == [tbl |-> tbl, issued |-> {}, redefined |-> {}]

(* Full macro replacement of a token sequence; a macro is not replaced     *)
(* again inside its own expansion.                                         *)
RECURSIVE Expand(_, _, _)
Expand(tbl, toks, hide) ==
    IF toks = <<>> THEN <<>>
    ELSE LET t == Head(toks)
             h == IF t \in Names /\ t \notin hide /\ tbl[t].def
                  THEN Expand(tbl, tbl[t].body, hide \cup {t})
                  ELSE <<t>>
         IN  h \o Expand(tbl, Tail(toks), hide)

Expansion(tbl, n) == Expand(tbl, <<n>>, {})

(***************************************************************************)
(* src/jxl_export.h *)
(***************************************************************************)
(* variant: the platform is looked at before the static selector *)
JxlExportSection_PlatformFirst(pp) ==
    IF Ifdef(pp, "_WIN32")
    THEN Define(IF Ifdef(pp, "JXL_INTERNAL_LIBRARY_BUILD")
                THEN Define(pp, "JXL_EXPORT", DllExport)
                ELSE Define(pp, "JXL_EXPORT", DllImport),
                "JXL_NO_EXPORT", VisHidden)
    ELSE IF Ifdef(pp, "JXL_STATIC_DEFINE")
         THEN Define(Define(pp, "JXL_EXPORT", Empty), "JXL_NO_EXPORT", Empty)
         ELSE Define(IF Ifdef(pp, "JXL_INTERNAL_LIBRARY_BUILD")
                     THEN Define(pp, "JXL_EXPORT", VisDefault)
                     ELSE Define(pp, "JXL_EXPORT", Empty),
                     "JXL_NO_EXPORT", VisHidden)

(* lines 14-32: export and hidden markers *)
JxlExportSection(pp) ==
    IF Ifdef(pp, "JXL_STATIC_DEFINE")
    THEN Define(Define(pp, "JXL_EXPORT", Empty), "JXL_NO_EXPORT", Empty)
    ELSE LET e == IF Ifdef(pp, "_WIN32")
                  THEN IF Ifdef(pp, "JXL_INTERNAL_LIBRARY_BUILD")
                       THEN Define(pp, "JXL_EXPORT", DllExport)
                       ELSE Define(pp, "JXL_EXPORT", DllImport)
                  ELSE IF Ifdef(pp, "JXL_INTERNAL_LIBRARY_BUILD")
                       THEN Define(pp, "JXL_EXPORT", VisDefault)
                       ELSE Define(pp, "JXL_EXPORT", Empty)
         IN  Define(e, "JXL_NO_EXPORT", VisHidden)

(* variant: an unknown compiler gets the MSVC form *)
JxlDeprecatedSection_MsvcFallback(pp) ==
    IF Ifdef(pp, "JXL_DEPRECATED") THEN pp
    ELSE IF Ifdef(pp, "__GNUC__")
         THEN Define(pp, "JXL_DEPRECATED", GnuDeprecated)
         ELSE Define(pp, "JXL_DEPRECATED", MsvcDeprecated)

(* lines 34-42: deprecation marker *)
JxlDeprecatedSection(pp) ==
    IF Ifdef(pp, "JXL_DEPRECATED") THEN pp
    ELSE IF Ifdef(pp, "__GNUC__")
         THEN Define(pp, "JXL_DEPRECATED", GnuDeprecated)
         ELSE IF Ifdef(pp, "_MSC_VER")
              THEN Define(pp, "JXL_DEPRECATED", MsvcDeprecated)
              ELSE Define(pp, "JXL_DEPRECATED", Empty)

(* variant: the two components in the other order *)
JxlDeprecatedExportSection_Swapped(pp) ==
    IF Ifdef(pp, "JXL_DEPRECATED_EXPORT") THEN pp
    ELSE Define(pp, "JXL_DEPRECATED_EXPORT", <<"JXL_DEPRECATED", "JXL_EXPORT">>)

(* lines 44-46: deprecated and exported *)
JxlDeprecatedExportSection(pp) ==
    IF Ifdef(pp, "JXL_DEPRECATED_EXPORT") THEN pp
    ELSE Define(pp, "JXL_DEPRECATED_EXPORT", <<"JXL_EXPORT", "JXL_DEPRECATED">>)

(* lines 48-50: deprecated and hidden *)
JxlDeprecatedNoExportSection(pp) ==
    IF Ifdef(pp, "JXL_DEPRECATED_NO_EXPORT") THEN pp
    ELSE Define(pp, "JXL_DEPRECATED_NO_EXPORT",
                <<"JXL_NO_EXPORT", "JXL_DEPRECATED">>)

(* lines 10-52: the header behind its include guard *)
JxlExportH(pp) ==
    IF Ifdef(pp, "JXL_EXPORT_H") THEN pp
    ELSE JxlDeprecatedNoExportSection(
           JxlDeprecatedExportSection(
             JxlDeprecatedSection(
               JxlExportSection(Define(pp, "JXL_EXPORT_H", Empty)))))

(***************************************************************************)
(* src/jxl_cms_export.h *)
(***************************************************************************)
(* variant: export and import forms exchanged *)
JxlCmsExportSection_ImportExportSwapped(pp) ==
    IF Ifdef(pp, "JXL_STATIC_DEFINE")
    THEN Define(Define(pp, "JXL_CMS_EXPORT", Empty), "JXL_CMS_NO_EXPORT", Empty)
    ELSE LET e == IF Ifdef(pp, "_WIN32")
                  THEN IF Ifdef(pp, "JXL_CMS_INTERNAL_LIBRARY_BUILD")
                       THEN Define(pp, "JXL_CMS_EXPORT", DllImport)
                       ELSE Define(pp, "JXL_CMS_EXPORT", DllExport)
                  ELSE IF Ifdef(pp, "JXL_CMS_INTERNAL_LIBRARY_BUILD")
                       THEN Define(pp, "JXL_CMS_EXPORT", VisDefault)
                       ELSE Define(pp, "JXL_CMS_EXPORT", Empty)
         IN  Define(e, "JXL_CMS_NO_EXPORT", VisHidden)

(* lines 14-32: export and hidden markers *)
JxlCmsExportSection(pp) ==
    IF Ifdef(pp, "JXL_STATIC_DEFINE")
    THEN Define(Define(pp, "JXL_CMS_EXPORT", Empty), "JXL_CMS_NO_EXPORT", Empty)
    ELSE LET e == IF Ifdef(pp, "_WIN32")
                  THEN IF Ifdef(pp, "JXL_CMS_INTERNAL_LIBRARY_BUILD")
                       THEN Define(pp, "JXL_CMS_EXPORT", DllExport)
                       ELSE Define(pp, "JXL_CMS_EXPORT", DllImport)
                  ELSE IF Ifdef(pp, "JXL_CMS_INTERNAL_LIBRARY_BUILD")
                       THEN Define(pp, "JXL_CMS_EXPORT", VisDefault)
                       ELSE Define(pp, "JXL_CMS_EXPORT", Empty)
         IN  Define(e, "JXL_CMS_NO_EXPORT", VisHidden)

(* variant: _MSC_VER is probed before __GNUC__ *)
JxlCmsDeprecatedSection_MsvcFirst(pp) ==
    IF Ifdef(pp, "JXL_CMS_DEPRECATED") THEN pp
    ELSE IF Ifdef(pp, "_MSC_VER")
         THEN Define(pp, "JXL_CMS_DEPRECATED", MsvcDeprecated)
         ELSE IF Ifdef(pp, "__GNUC__")
              THEN Define(pp, "JXL_CMS_DEPRECATED", GnuDeprecated)
              ELSE Define(pp, "JXL_CMS_DEPRECATED", Empty)

(* lines 34-42: deprecation marker *)
JxlCmsDeprecatedSection(pp) ==
    IF Ifdef(pp, "JXL_CMS_DEPRECATED") THEN pp
    ELSE IF Ifdef(pp, "__GNUC__")
         THEN Define(pp, "JXL_CMS_DEPRECATED", GnuDeprecated)
         ELSE IF Ifdef(pp, "_MSC_VER")
              THEN Define(pp, "JXL_CMS_DEPRECATED", MsvcDeprecated)
              ELSE Define(pp, "JXL_CMS_DEPRECATED", Empty)

(* lines 44-46: deprecated and exported *)
JxlCmsDeprecatedExportSection(pp) ==
    IF Ifdef(pp, "JXL_CMS_DEPRECATED_EXPORT") THEN pp
    ELSE Define(pp, "JXL_CMS_DEPRECATED_EXPORT", <<"JXL_CMS_EXPORT", "JXL_CMS_DEPRECATED">>)

(* variant: the core module's token is defined instead of the module's own *)
JxlCmsDeprecatedNoExportSection_CorePrefix(pp) ==
    IF Ifdef(pp, "JXL_CMS_DEPRECATED_NO_EXPORT") THEN pp
    ELSE Define(pp, "JXL_DEPRECATED_NO_EXPORT",
                <<"JXL_CMS_NO_EXPORT", "JXL_CMS_DEPRECATED">>)

(* lines 48-50: deprecated and hidden *)
JxlCmsDeprecatedNoExportSection(pp) ==
    IF Ifdef(pp, "JXL_CMS_DEPRECATED_NO_EXPORT") THEN pp
    ELSE Define(pp, "JXL_CMS_DEPRECATED_NO_EXPORT",
                <<"JXL_CMS_NO_EXPORT", "JXL_CMS_DEPRECATED">>)

(* lines 10-52: the header behind its include guard *)
JxlCmsExportH(pp) ==
    IF Ifdef(pp, "JXL_CMS_EXPORT_H") THEN pp
    ELSE JxlCmsDeprecatedNoExportSection(
           JxlCmsDeprecatedExportSection(
             JxlCmsDeprecatedSection(
               JxlCmsExportSection(Define(pp, "JXL_CMS_EXPORT_H", Empty)))))

(***************************************************************************)
(* src/jxl/jxl_threads_export.h *)
(***************************************************************************)
(* variant: the hidden-visibility attribute only without _WIN32 *)
JxlThreadsExportSection_HiddenUnixOnly(pp) ==
    IF Ifdef(pp, "JXL_STATIC_DEFINE")
    THEN Define(Define(pp, "JXL_THREADS_EXPORT", Empty),
                "JXL_THREADS_NO_EXPORT", Empty)
    ELSE IF Ifdef(pp, "_WIN32")
         THEN Define(IF Ifdef(pp, "JXL_THREADS_INTERNAL_LIBRARY_BUILD")
                     THEN Define(pp, "JXL_THREADS_EXPORT", DllExport)
                     ELSE Define(pp, "JXL_THREADS_EXPORT", DllImport),
                     "JXL_THREADS_NO_EXPORT", Empty)
         ELSE Define(IF Ifdef(pp, "JXL_THREADS_INTERNAL_LIBRARY_BUILD")
                     THEN Define(pp, "JXL_THREADS_EXPORT", VisDefault)
                     ELSE Define(pp, "JXL_THREADS_EXPORT", Empty),
                     "JXL_THREADS_NO_EXPORT", VisHidden)

(* lines 14-32: export and hidden markers *)
JxlThreadsExportSection(pp) ==
    IF Ifdef(pp, "JXL_STATIC_DEFINE")
    THEN Define(Define(pp, "JXL_THREADS_EXPORT", Empty), "JXL_THREADS_NO_EXPORT", Empty)
    ELSE LET e == IF Ifdef(pp, "_WIN32")
                  THEN IF Ifdef(pp, "JXL_THREADS_INTERNAL_LIBRARY_BUILD")
                       THEN Define(pp, "JXL_THREADS_EXPORT", DllExport)
                       ELSE Define(pp, "JXL_THREADS_EXPORT", DllImport)
                  ELSE IF Ifdef(pp, "JXL_THREADS_INTERNAL_LIBRARY_BUILD")
                       THEN Define(pp, "JXL_THREADS_EXPORT", VisDefault)
                       ELSE Define(pp, "JXL_THREADS_EXPORT", Empty)
         IN  Define(e, "JXL_THREADS_NO_EXPORT", VisHidden)

(* variant: only __GNUC__ is probed *)
JxlThreadsDeprecatedSection_GnuOnly(pp) ==
    IF Ifdef(pp, "JXL_THREADS_DEPRECATED") THEN pp
    ELSE IF Ifdef(pp, "__GNUC__")
         THEN Define(pp, "JXL_THREADS_DEPRECATED", GnuDeprecated)
         ELSE Define(pp, "JXL_THREADS_DEPRECATED", Empty)

(* lines 34-42: deprecation marker *)
JxlThreadsDeprecatedSection(pp) ==
    IF Ifdef(pp, "JXL_THREADS_DEPRECATED") THEN pp
    ELSE IF Ifdef(pp, "__GNUC__")
         THEN Define(pp, "JXL_THREADS_DEPRECATED", GnuDeprecated)
         ELSE IF Ifdef(pp, "_MSC_VER")
              THEN Define(pp, "JXL_THREADS_DEPRECATED", MsvcDeprecated)
              ELSE Define(pp, "JXL_THREADS_DEPRECATED", Empty)

(* lines 44-46: deprecated and exported *)
JxlThreadsDeprecatedExportSection(pp) ==
    IF Ifdef(pp, "JXL_THREADS_DEPRECATED_EXPORT") THEN pp
    ELSE Define(pp, "JXL_THREADS_DEPRECATED_EXPORT", <<"JXL_THREADS_EXPORT", "JXL_THREADS_DEPRECATED">>)

(* lines 48-50: deprecated and hidden *)
JxlThreadsDeprecatedNoExportSection(pp) ==
    IF Ifdef(pp, "JXL_THREADS_DEPRECATED_NO_EXPORT") THEN pp
    ELSE Define(pp, "JXL_THREADS_DEPRECATED_NO_EXPORT",
                <<"JXL_THREADS_NO_EXPORT", "JXL_THREADS_DEPRECATED">>)

(* variant: the header without its include guard test *)
JxlThreadsExportH_NoGuard(pp) ==
    JxlThreadsDeprecatedNoExportSection(
      JxlThreadsDeprecatedExportSection(
        JxlThreadsDeprecatedSection(
          JxlThreadsExportSection(Define(pp, "JXL_THREADS_EXPORT_H", Empty)))))

(* lines 10-52: the header behind its include guard *)
JxlThreadsExportH(pp) ==
    IF Ifdef(pp, "JXL_THREADS_EXPORT_H") THEN pp
    ELSE JxlThreadsDeprecatedNoExportSection(
           JxlThreadsDeprecatedExportSection(
             JxlThreadsDeprecatedSection(
               JxlThreadsExportSection(Define(pp, "JXL_THREADS_EXPORT_H", Empty)))))

(***************************************************************************)
(* The translation unit                                                    *)
(***************************************************************************)
Headers == {"jxl_export.h", "jxl_cms_export.h", "jxl/jxl_threads_export.h"}

TypeOK ==
    /\ macros \in [Names -> [def : BOOLEAN, body : Bodies]]
    /\ last \in [kind : {"start", "define", "undef", "include"},
                 name : Names \cup Headers \cup {"none"},
                 issued : SUBSET Names, redefined : SUBSET Names]
    /\ ndirectives \in 0..MaxUserDirectives

(* The compiler and the command line set the ambient flags; no token and   *)
(* no include guard is defined when the translation unit starts.           *)
Init ==
    /\ \E on \in SUBSET Flags :
          macros = [n \in Names |-> IF n \in on THEN Defined(Empty) ELSE NotDefined]
    /\ last = [kind |-> "start", name |-> "none", issued |-> {}, redefined |-> {}]
    /\ ndirectives = 0

(* #define of a flag or a token that is not defined yet *)
UserDefine(n, body) ==
    /\ ndirectives < MaxUserDirectives
    /\ ~macros[n].def
    /\ macros' = [macros EXCEPT ![n] = Defined(body)]
    /\ last' = [kind |-> "define", name |-> n, issued |-> {}, redefined |-> {}]
    /\ ndirectives' = ndirectives + 1

(* #undef of an ambient flag *)
UserUndef(n) ==
    /\ ndirectives < MaxUserDirectives
    /\ macros[n].def
    /\ macros' = [macros EXCEPT ![n] = NotDefined]
    /\ last' = [kind |-> "undef", name |-> n, issued |-> {}, redefined |-> {}]
    /\ ndirectives' = ndirectives + 1

Included(h, pp) ==
    /\ macros' = pp.tbl
    /\ last' = [kind |-> "include", name |-> h, issued |-> pp.issued,
                redefined |-> pp.redefined]
    /\ UNCHANGED ndirectives

IncludeJxlExport == Included("jxl_export.h", JxlExportH(Start(macros)))

IncludeJxlCmsExport == Included("jxl_cms_export.h", JxlCmsExportH(Start(macros)))

IncludeJxlThreadsExport ==
    Included("jxl/jxl_threads_export.h", JxlThreadsExportH(Start(macros)))

DefineFlag == \E n \in Flags : UserDefine(n, Empty)

UndefFlag == \E n \in Flags : UserUndef(n)

DefineToken == \E n \in Tokens, body \in UserBodies : UserDefine(n, body)

Next ==
    \/ DefineFlag
    \/ UndefFlag
    \/ DefineToken
    \/ IncludeJxlExport
    \/ IncludeJxlCmsExport
    \/ IncludeJxlThreadsExport

Spec == Init /\ [][Next]_vars

(* A translation unit that leaves the ambient flags as the command line    *)
(* set them                                                                *)
NextFixedFlags ==
    \/ DefineToken
    \/ IncludeJxlExport
    \/ IncludeJxlCmsExport
    \/ IncludeJxlThreadsExport

SpecFixedFlags == Init /\ [][NextFixedFlags]_vars

(***************************************************************************)
(* The names of one module's macros, by module prefix                      *)
(***************************************************************************)
Mods == {"JXL", "JXL_CMS", "JXL_THREADS"}

Module ==
    [JXL |->
       [header |-> "jxl_export.h", guard |-> "JXL_EXPORT_H",
        role |-> "JXL_INTERNAL_LIBRARY_BUILD",
        export |-> "JXL_EXPORT", no_export |-> "JXL_NO_EXPORT",
        deprecated |-> "JXL_DEPRECATED",
        deprecated_export |-> "JXL_DEPRECATED_EXPORT",
        deprecated_no_export |-> "JXL_DEPRECATED_NO_EXPORT"],
     JXL_CMS |->
       [header |-> "jxl_cms_export.h", guard |-> "JXL_CMS_EXPORT_H",
        role |-> "JXL_CMS_INTERNAL_LIBRARY_BUILD",
        export |-> "JXL_CMS_EXPORT", no_export |-> "JXL_CMS_NO_EXPORT",
        deprecated |-> "JXL_CMS_DEPRECATED",
        deprecated_export |-> "JXL_CMS_DEPRECATED_EXPORT",
        deprecated_no_export |-> "JXL_CMS_DEPRECATED_NO_EXPORT"],
     JXL_THREADS |->
       [header |-> "jxl/jxl_threads_export.h", guard |-> "JXL_THREADS_EXPORT_H",
        role |-> "JXL_THREADS_INTERNAL_LIBRARY_BUILD",
        export |-> "JXL_THREADS_EXPORT", no_export |-> "JXL_THREADS_NO_EXPORT",
        deprecated |-> "JXL_THREADS_DEPRECATED",
        deprecated_export |-> "JXL_THREADS_DEPRECATED_EXPORT",
        deprecated_no_export |-> "JXL_THREADS_DEPRECATED_NO_EXPORT"]]

TokenFields == {"export", "no_export", "deprecated", "deprecated_export",
                "deprecated_no_export"}

(* The five tokens of module P *)
TokensOf(P) == {Module[P][f] : f \in TokenFields}

(* Every macro the header of module P may define: its tokens and its guard *)
Own(P) == TokensOf(P) \cup {Module[P].guard}

(* The header of module P read in the translation unit whose table is tbl *)
RunHeader(P, tbl) ==
    CASE P = "JXL"         -> JxlExportH(Start(tbl))
      [] P = "JXL_CMS"     -> JxlCmsExportH(Start(tbl))
      [] P = "JXL_THREADS" -> JxlThreadsExportH(Start(tbl))

(***************************************************************************)
(* Vocabulary of the properties                                            *)
(***************************************************************************)
Def(n) == macros[n].def

Static == Def("JXL_STATIC_DEFINE")

Win32 == Def("_WIN32")

Gnuc == Def("__GNUC__")

Msc == Def("_MSC_VER")

(* The last directive was an #include of P's header *)
IncludedNow(P) == last.kind = "include" /\ last.name = Module[P].header

(* ... and it was the inclusion that got past the include guard *)
Resolved(P) == IncludedNow(P) /\ Module[P].guard \in last.issued

Bound(n, body) == macros[n] = Defined(body) /\ n \in last.issued

(***************************************************************************)
(* Properties.  An #include leaves the ambient flags alone, so the flags   *)
(* of the state after an inclusion are the flags the header has read.      *)
(***************************************************************************)

(* C1: for each of the three modules, when JXL_STATIC_DEFINE is defined at *)
(* the first inclusion of the header, the header binds P_EXPORT and        *)
(* P_NO_EXPORT to the empty token sequence, whatever _WIN32 and            *)
(* P_INTERNAL_LIBRARY_BUILD are.                                           *)
C1_StaticBindsEmpty ==
    \A P \in Mods :
        (Resolved(P) /\ Static) =>
            /\ Bound(Module[P].export, Empty)
            /\ Bound(Module[P].no_export, Empty)
            /\ Expansion(macros, Module[P].export) = <<>>
            /\ Expansion(macros, Module[P].no_export) = <<>>

C1_Witness ==
    /\ Resolved("JXL_THREADS") /\ Static /\ Win32
    /\ Def("JXL_THREADS_INTERNAL_LIBRARY_BUILD")
    /\ Expansion(macros, "JXL_THREADS_EXPORT") = <<>>
    /\ Expansion(macros, "JXL_THREADS_NO_EXPORT") = <<>>

(* C2: for each module, without JXL_STATIC_DEFINE the header binds         *)
(* P_EXPORT by platform and role: _WIN32 and internal build gives          *)
(* __declspec(dllexport), _WIN32 and consumer __declspec(dllimport), no    *)
(* _WIN32 and internal build the default-visibility attribute, no _WIN32   *)
(* and consumer nothing.                                                   *)
C2_SharedExportTable ==
    \A P \in Mods :
        (Resolved(P) /\ ~Static) =>
            /\ (Win32 /\ Def(Module[P].role)) =>
                   Bound(Module[P].export, <<"__declspec(dllexport)">>)
            /\ (Win32 /\ ~Def(Module[P].role)) =>
                   Bound(Module[P].export, <<"__declspec(dllimport)">>)
            /\ (~Win32 /\ Def(Module[P].role)) =>
                   Bound(Module[P].export,
                         <<"__attribute__((visibility(\"default\")))">>)
            /\ (~Win32 /\ ~Def(Module[P].role)) =>
                   Bound(Module[P].export, <<>>)

C2_Witness ==
    /\ Resolved("JXL_CMS") /\ ~Static /\ Win32
    /\ ~Def("JXL_CMS_INTERNAL_LIBRARY_BUILD")
    /\ Expansion(macros, "JXL_CMS_EXPORT") = <<"__declspec(dllimport)">>

(* C3: for each module, without JXL_STATIC_DEFINE the header binds         *)
(* P_NO_EXPORT to the hidden-visibility attribute, for both roles and with *)
(* or without _WIN32.                                                      *)
C3_SharedNoExportHidden ==
    \A P \in Mods :
        (Resolved(P) /\ ~Static) =>
            /\ Bound(Module[P].no_export,
                     <<"__attribute__((visibility(\"hidden\")))">>)
            /\ Expansion(macros, Module[P].no_export) =
                     <<"__attribute__((visibility(\"hidden\")))">>

C3_Witness ==
    /\ Resolved("JXL") /\ ~Static /\ Win32 /\ Def("JXL_INTERNAL_LIBRARY_BUILD")
    /\ macros["JXL_NO_EXPORT"].body = VisHidden

(* C5: for each module, the P_DEPRECATED the header chooses depends on the *)
(* compiler signals alone: the GNU attribute when __GNUC__ is defined      *)
(* (also next to _MSC_VER), __declspec(deprecated) when only _MSC_VER is,  *)
(* nothing when neither is.                                                *)
C5_DeprecatedByCompiler ==
    \A P \in Mods :
        (Resolved(P) /\ Module[P].deprecated \in last.issued) =>
            macros[Module[P].deprecated] =
                Defined(IF Gnuc THEN <<"__attribute__ ((__deprecated__))">>
                        ELSE IF Msc THEN <<"__declspec(deprecated)">>
                        ELSE <<>>)

C5_Witness ==
    /\ Resolved("JXL_CMS") /\ Gnuc /\ Msc /\ Static /\ Win32
    /\ "JXL_CMS_DEPRECATED" \in last.issued
    /\ Expansion(macros, "JXL_CMS_DEPRECATED") = GnuDeprecated

(* C4 as written: for each module, after any inclusion of the header, also *)
(* in a translation unit that defined macros beforehand,                   *)
(* P_DEPRECATED_EXPORT expands to the expansion of P_EXPORT followed by    *)
(* that of P_DEPRECATED and P_DEPRECATED_NO_EXPORT to the expansion of     *)
(* P_NO_EXPORT followed by that of P_DEPRECATED.                           *)
C4_CompositeAlwaysDerived ==
    \A P \in Mods :
        IncludedNow(P) =>
            /\ Expansion(macros, Module[P].deprecated_export) =
                   Expansion(macros, Module[P].export)
                       \o Expansion(macros, Module[P].deprecated)
            /\ Expansion(macros, Module[P].deprecated_no_export) =
                   Expansion(macros, Module[P].no_export)
                       \o Expansion(macros, Module[P].deprecated)

(* C4 amended: for each module and each of the two composite tokens that   *)
(* is not defined yet when the header is first included, the header        *)
(* defines it and it then expands to the expansion of P_EXPORT (of         *)
(* P_NO_EXPORT) followed by the expansion of P_DEPRECATED, nothing         *)
(* interposed; a composite token the translation unit defined beforehand   *)
(* keeps the translation unit's definition.                                *)
C4_CompositeDerivedUnlessPredefined ==
    \A P \in Mods :
        Resolved(P) =>
            /\ Module[P].deprecated_export \in last.issued =>
                   Expansion(macros, Module[P].deprecated_export) =
                       Expansion(macros, Module[P].export)
                           \o Expansion(macros, Module[P].deprecated)
            /\ Module[P].deprecated_no_export \in last.issued =>
                   Expansion(macros, Module[P].deprecated_no_export) =
                       Expansion(macros, Module[P].no_export)
                           \o Expansion(macros, Module[P].deprecated)
            /\ \A c \in {Module[P].deprecated_export,
                         Module[P].deprecated_no_export} :
                   c \notin last.issued => macros[c].body \in UserBodies

C4_Witness ==
    /\ Resolved("JXL") /\ "JXL_DEPRECATED_EXPORT" \in last.issued
    /\ "JXL_DEPRECATED_NO_EXPORT" \in last.issued
    /\ Expansion(macros, "JXL_DEPRECATED_EXPORT") =
           <<"__declspec(dllexport)", "__attribute__ ((__deprecated__))">>
    /\ Expansion(macros, "JXL_DEPRECATED_NO_EXPORT") =
           <<"__attribute__((visibility(\"hidden\")))",
             "__attribute__ ((__deprecated__))">>

(* C6: for each module, an inclusion of the header that finds the include  *)
(* guard defined (every inclusion after the first) issues no #define,      *)
(* raises no redefinition and leaves the whole macro table as it was, also *)
(* when the ambient flags changed in between.                              *)
C6_ReinclusionNoOp ==
    [][\A P \in Mods :
          (Def(Module[P].guard) /\ last'.kind = "include"
               /\ last'.name = Module[P].header) =>
              /\ last'.issued = {}
              /\ last'.redefined = {}
              /\ macros' = macros]_vars

(* a second inclusion of jxl_export.h after JXL_STATIC_DEFINE was defined: *)
(* JXL_EXPORT is still what the first inclusion resolved                   *)
C6_Witness ==
    /\ IncludedNow("JXL") /\ last.issued = {}
    /\ Static /\ Win32 /\ ndirectives = 1
    /\ macros["JXL_EXPORT"] = Defined(DllImport)
    /\ macros["JXL_NO_EXPORT"] = Defined(VisHidden)

(* Renaming of one module's macro names into another module's *)
Fields == TokenFields \cup {"guard", "role"}

Renaming ==
    [P \in Mods |-> [Q \in Mods |-> [n \in Names |->
        IF \E f \in Fields : Module[P][f] = n
        THEN Module[Q][CHOOSE f \in Fields : Module[P][f] = n]
        ELSE n]]]

Rename(P, Q, n) == IF n \in Names THEN Renaming[P][Q][n] ELSE n

RenameBody(P, Q, body) == [i \in DOMAIN body |-> Rename(P, Q, body[i])]

RenameDef(P, Q, d) == [def |-> d.def, body |-> RenameBody(P, Q, d.body)]

Transplant(tbl, P, Q) ==
    [n \in Names |->
        IF Renaming[Q][P][n] # n
        THEN RenameDef(P, Q, tbl[Renaming[Q][P][n]])
        ELSE tbl[n]]

(* the module compared with P: JXL with JXL_CMS, JXL_CMS with JXL_THREADS, *)
(* JXL_THREADS with JXL                                                    *)
Peer == [JXL |-> "JXL_CMS", JXL_CMS |-> "JXL_THREADS", JXL_THREADS |-> "JXL"]

(* C7: the three headers compute the same function up to the module        *)
(* prefix: in every translation unit, reading the header of module P gives *)
(* the five bindings (and the #defines issued and the redefinitions met)   *)
(* that the header of module Q gives in the translation unit that has P's  *)
(* macros under Q's names, renamed from Q back to P.                       *)
C7_SameFunction ==
    \A P \in Mods :
        \A rp \in {RunHeader(P, macros)} :
        \A rq \in {RunHeader(Peer[P], Transplant(macros, P, Peer[P]))} :
            /\ \A f \in TokenFields \cup {"guard"} :
                   rq.tbl[Module[Peer[P]][f]] =
                       RenameDef(P, Peer[P], rp.tbl[Module[P][f]])
            /\ \A f \in {"deprecated_export", "deprecated_no_export"} :
                   Expansion(rq.tbl, Module[Peer[P]][f]) =
                       RenameBody(P, Peer[P], Expansion(rp.tbl, Module[P][f]))
            /\ rq.issued = {Rename(P, Peer[P], n) : n \in rp.issued}
            /\ rq.redefined = {Rename(P, Peer[P], n) : n \in rp.redefined}

C7_Witness ==
    /\ \A P \in Mods : Def(Module[P].guard) /\ Def(Module[P].role)
    /\ last.kind = "include" /\ ~Static /\ Win32 /\ ~Gnuc /\ Msc
    /\ \A P \in Mods :
          /\ macros[Module[P].export] = Defined(DllExport)
          /\ Expansion(macros, Module[P].deprecated_export) =
                 <<"__declspec(dllexport)", "__declspec(deprecated)">>

(* C8 as written: for each module, when _WIN32 is not defined the header   *)
(* binds P_EXPORT and P_NO_EXPORT to nothing, and when neither __GNUC__    *)
(* nor _MSC_VER is defined it binds P_DEPRECATED to nothing, in every      *)
(* build mode and role.                                                    *)
C8_FailOpenEmpty ==
    \A P \in Mods :
        Resolved(P) =>
            /\ ~Win32 => /\ macros[Module[P].export] = Defined(Empty)
                         /\ macros[Module[P].no_export] = Defined(Empty)
            /\ (~Gnuc /\ ~Msc /\ Module[P].deprecated \in last.issued) =>
                   macros[Module[P].deprecated] = Defined(Empty)

(* C8 amended: for each module, when neither __GNUC__ nor _MSC_VER is      *)
(* defined the header binds P_DEPRECATED to nothing in every build mode    *)
(* and role; when _WIN32 is not defined the header emits no __declspec     *)
(* form, but P_EXPORT and P_NO_EXPORT are both nothing only with           *)
(* JXL_STATIC_DEFINE: without it P_NO_EXPORT is the hidden-visibility      *)
(* attribute and P_EXPORT is the default-visibility attribute for an       *)
(* internal build and nothing for a consumer.                              *)
C8_FailOpenAmended ==
    \A P \in Mods :
        Resolved(P) =>
            /\ (~Gnuc /\ ~Msc /\ Module[P].deprecated \in last.issued) =>
                   macros[Module[P].deprecated] = Defined(Empty)
            /\ ~Win32 =>
                   /\ macros[Module[P].export].body \notin {DllExport, DllImport}
                   /\ macros[Module[P].no_export].body \notin {DllExport, DllImport}
                   /\ Static => /\ macros[Module[P].export] = Defined(Empty)
                                /\ macros[Module[P].no_export] = Defined(Empty)
                   /\ ~Static =>
                        /\ macros[Module[P].no_export] = Defined(VisHidden)
                        /\ macros[Module[P].export] =
                               Defined(IF Def(Module[P].role)
                                       THEN VisDefault ELSE Empty)

C8_Witness ==
    /\ Resolved("JXL_THREADS") /\ ~Win32 /\ ~Gnuc /\ ~Msc /\ ~Static
    /\ Def("JXL_THREADS_INTERNAL_LIBRARY_BUILD")
    /\ macros["JXL_THREADS_EXPORT"] = Defined(VisDefault)
    /\ macros["JXL_THREADS_NO_EXPORT"] = Defined(VisHidden)
    /\ macros["JXL_THREADS_DEPRECATED"] = Defined(Empty)
    /\ "JXL_THREADS_DEPRECATED" \in last.issued

(* C9: for each module and each of its five tokens, an inclusion of a      *)
(* header issues no #define for a token that is already defined, and the   *)
(* token keeps its definition across the inclusion.                        *)
C9_WriteOnce ==
    [][\A P \in Mods : \A t \in TokensOf(P) :
          (Def(t) /\ last'.kind = "include") =>
              /\ t \notin last'.issued
              /\ macros'[t] = macros[t]]_vars

(* C10: for each module, an inclusion of its header defines or changes     *)
(* only that module's five tokens and include guard, every other macro is  *)
(* left as it was, and the P_EXPORT it binds is decided by the static      *)
(* selector, the platform and the module's own internal-build signal, not  *)
(* by the signal of another module; the headers can be included in any     *)
(* order.                                                                  *)
C10_NoInterference ==
    [][\A P \in Mods :
          (last'.kind = "include" /\ last'.name = Module[P].header) =>
              /\ \A n \in Names \ Own(P) : macros'[n] = macros[n]
              /\ last'.issued \subseteq Own(P)
              /\ Module[P].export \in last'.issued =>
                     macros'[Module[P].export].body =
                         IF Static THEN Empty
                         ELSE IF Win32
                              THEN IF Def(Module[P].role)
                                   THEN DllExport ELSE DllImport
                              ELSE IF Def(Module[P].role)
                                   THEN VisDefault ELSE Empty]_vars

(* the core module is being built, the threading module is only consumed *)
C10_Witness ==
    /\ Def("JXL_EXPORT_H") /\ Def("JXL_THREADS_EXPORT_H")
    /\ ~Static /\ Win32 /\ ndirectives = 0
    /\ Def("JXL_INTERNAL_LIBRARY_BUILD")
    /\ ~Def("JXL_THREADS_INTERNAL_LIBRARY_BUILD")
    /\ Def("JXL_CMS_INTERNAL_LIBRARY_BUILD")
    /\ macros["JXL_EXPORT"] = Defined(DllExport)
    /\ macros["JXL_THREADS_EXPORT"] = Defined(DllImport)
    /\ ~Def("JXL_CMS_EXPORT_H") /\ ~Def("JXL_CMS_EXPORT")

====
